---- MODULE Spec2Model ----
(***************************************************************************)
(* Model of persist-expression (src/src/lib.rs): named 2-D tables of i32,  *)
(* the stateless Expression evaluator, and PersistentExpression, whose     *)
(* nodes cache their value and are updated incrementally by TableEvents.   *)
(*                                                                         *)
(* Rust usize indices are 0-based; TLA+ sequences are 1-based, so cell     *)
(* (x, y) of a table is data[y + 1][x + 1].                                *)
(* An Option<i32> is a sequence of length at most one: <<>> is None and    *)
(* <<v>> is Some(v).                                                       *)
(***************************************************************************)
EXTENDS Integers, Sequences, FiniteSets, TLC

VARIABLES
    overflow_checks, \* build profile: TRUE = overflow checks on (debug, test)
    table_set,       \* TableSet: table name -> Table
    expr,            \* the PersistentExpression tree, with its cached states
    phase,           \* "new" (constructed), "ready" (init returned), "aborted" (a call panicked)
    pending,         \* <<>>, or <<event>>: a Table.set whose event is not yet applied
    pre,             \* [expr, table_set] as they were when the last call started
    last,            \* the last call: [op, args, outcome, ret]
    ops,             \* number of calls made so far
    earlier          \* the call before the last, where call pairs are followed:
                     \* [expr when that call started, last of that call]

vars == <<overflow_checks, table_set, expr, phase, pending, pre, last, ops, earlier>>

----------------------------------------------------------------------------
(* i32 arithmetic.  `a + b` and `a - b` on i32 panic on overflow when the  *)
(* build has overflow checks and wrap in two's complement otherwise.       *)

I32Max == 2147483647
I32Min == -I32Max - 1

AddOverflows(a, b) == (b > 0 /\ a > I32Max - b) \/ (b < 0 /\ a < I32Min - b)
SubOverflows(a, b) == (b < 0 /\ a > I32Max + b) \/ (b > 0 /\ a < I32Min + b)

\* a + b reduced into the i32 range, computed without leaving it
WrappingAdd(a, b) ==
    IF b > 0 /\ a > I32Max - b THEN (a - I32Max - 1) + (b - I32Max - 1)
    ELSE IF b < 0 /\ a < I32Min - b THEN (a - I32Min) + (b - I32Min)
    ELSE a + b

\* a - b reduced into the i32 range, computed without leaving it
WrappingSub(a, b) ==
    IF b < 0 /\ a > I32Max + b THEN (a - I32Max - 1) - (b - I32Min)
    ELSE IF b > 0 /\ a < I32Min + b THEN (a - I32Min) - (b - I32Max - 1)
    ELSE a - b

Ok(v) == [outcome |-> "ok", val |-> v]
Panic(why) == [outcome |-> why, val |-> 0]

\* the i32 `+` operator under the build profile chk
I32Add(a, b, chk) ==
    IF chk /\ AddOverflows(a, b) THEN Panic("overflow") ELSE Ok(WrappingAdd(a, b))

\* the i32 `-` operator under the build profile chk
I32Sub(a, b, chk) ==
    IF chk /\ SubOverflows(a, b) THEN Panic("overflow") ELSE Ok(WrappingSub(a, b))

----------------------------------------------------------------------------
(* Table *)

Table_new(name, data) == [name |-> name, data |-> data]

\* A get that answers 0 for a cell that does not exist
Table_get_Default(t, x, y) ==
    IF y < Len(t.data)
    THEN IF x < Len(t.data[y + 1]) THEN <<t.data[y + 1][x + 1]>> ELSE <<0>>
    ELSE <<0>>

\* self.data.get(y).and_then(|row| row.get(x))
Table_get(t, x, y) ==
    IF y < Len(t.data)
    THEN IF x < Len(t.data[y + 1]) THEN <<t.data[y + 1][x + 1]>> ELSE <<>>
    ELSE <<>>

\* A set that grows the row to reach column x
Table_set_Resizes(t, x, y, value) ==
    IF y < Len(t.data)
    THEN [t EXCEPT !.data[y + 1] =
            [i \in 1..(IF x < Len(@) THEN Len(@) ELSE x + 1) |->
                IF i = x + 1 THEN value ELSE IF i <= Len(@) THEN @[i] ELSE 0]]
    ELSE t

\* if let Some(row) = data.get_mut(y) { if let Some(cell) = row.get_mut(x) { *cell = value } }
Table_set(t, x, y, value) ==
    IF y < Len(t.data)
    THEN IF x < Len(t.data[y + 1])
         THEN [t EXCEPT !.data[y + 1][x + 1] = value]
         ELSE t
    ELSE t

\* table_set.get(table).and_then(|table| table.get(x, y).copied())
Lookup(ts, table, x, y) ==
    IF table \in DOMAIN ts THEN Table_get(ts[table], x, y) ELSE <<>>

----------------------------------------------------------------------------
(* Expression and PersistentExpression nodes *)

Number(v) == [kind |-> "Number", v |-> v]
Reference(table, x, y) == [kind |-> "Reference", table |-> table, x |-> x, y |-> y]
Sum(args) == [kind |-> "Sum", args |-> args]

PReference(state, table, x, y) ==
    [kind |-> "Reference", state |-> state, table |-> table, x |-> x, y |-> y]
PSum(state, args) == [kind |-> "Sum", state |-> state, args |-> args]

SetValue(table, x, y, value) == [table |-> table, x |-> x, y |-> y, value |-> value]

RECURSIVE Expression_eval(_, _, _)
RECURSIVE EvalFold(_, _, _, _, _)

\* A fold whose closure returns the child's value and drops the accumulator
EvalFold_DropsAcc(args, i, acc, ts, chk) ==
    IF i > Len(args) THEN Ok(acc)
    ELSE LET r == Expression_eval(args[i], ts, chk) IN
         IF r.outcome # "ok" THEN r
         ELSE EvalFold(args, i + 1, r.val, ts, chk)

\* args.iter().fold(0, |acc, v| v.eval(table_set) + acc), from child i on
EvalFold(args, i, acc, ts, chk) ==
    IF i > Len(args) THEN Ok(acc)
    ELSE LET r == Expression_eval(args[i], ts, chk) IN
         IF r.outcome # "ok" THEN r
         ELSE LET s == I32Add(r.val, acc, chk) IN
              IF s.outcome # "ok" THEN s
              ELSE EvalFold(args, i + 1, s.val, ts, chk)

Expression_eval(e, ts, chk) ==
    CASE e.kind = "Number" -> Ok(e.v)
      [] e.kind = "Reference" ->
            LET c == Lookup(ts, e.table, e.x, e.y) IN
            IF c = <<>> THEN Panic("unwrap_none") ELSE Ok(c[1])
      [] e.kind = "Sum" -> EvalFold(e.args, 1, 0, ts, chk)

\* A state() whose Number arm answers 0 instead of the literal
PersistentExpression_state_NumberZero(pe) ==
    IF pe.kind = "Number" THEN 0 ELSE pe.state

PersistentExpression_state(pe) ==
    IF pe.kind = "Number" THEN pe.v ELSE pe.state

\* A comparison that leaves the column out
Matches_IgnoresX(pe, event) ==
    event.table = pe.table /\ pe.y = event.y

\* A comparison that leaves the row out
Matches_IgnoresY(pe, event) ==
    event.table = pe.table /\ pe.x = event.x

\* A comparison that leaves the table name out
Matches_IgnoresTable(pe, event) ==
    pe.x = event.x /\ pe.y = event.y

\* t == table && x == x1 && y == y1
Matches(pe, event) ==
    event.table = pe.table /\ pe.x = event.x /\ pe.y = event.y

\* A Reference arm that updates the state on a match and still reports no change
ApplyReference_ReportsFalse(pe, event) ==
    IF Matches(pe, event)
    THEN [outcome |-> "ok", node |-> [pe EXCEPT !.state = event.value], ret |-> FALSE]
    ELSE [outcome |-> "ok", node |-> pe, ret |-> FALSE]

\* A Reference arm that adds the event's value to the state (*state += *value)
ApplyReference_Accumulates(pe, event) ==
    IF Matches(pe, event)
    THEN [outcome |-> "ok",
          node |-> [pe EXCEPT !.state = WrappingAdd(pe.state, event.value)], ret |-> TRUE]
    ELSE [outcome |-> "ok", node |-> pe, ret |-> FALSE]

\* The Reference arm of apply
ApplyReference(pe, event) ==
    IF Matches(pe, event)
    THEN [outcome |-> "ok", node |-> [pe EXCEPT !.state = event.value], ret |-> TRUE]
    ELSE [outcome |-> "ok", node |-> pe, ret |-> FALSE]

\* A delta update that adds the child's new state without taking off the old one
AddDelta_NoSubtract(state, new_state, original_state, chk) ==
    I32Add(state, new_state, chk)

\* A delta update that assigns the delta instead of accumulating it
AddDelta_Overwrite(state, new_state, original_state, chk) ==
    I32Sub(new_state, original_state, chk)

\* *state += arg.state() - original_state
\* The difference taken the wrong way round
AddDelta_Reversed(state, new_state, original_state, chk) ==
    LET delta == I32Sub(original_state, new_state, chk) IN
    IF delta.outcome # "ok" THEN delta ELSE I32Add(state, delta.val, chk)

AddDelta(state, new_state, original_state, chk) ==
    LET d == I32Sub(new_state, original_state, chk) IN
    IF d.outcome # "ok" THEN d ELSE I32Add(state, d.val, chk)

RECURSIVE PersistentExpression_apply(_, _, _)
RECURSIVE ApplyLoop(_, _, _, _, _, _)

\* A loop that returns as soon as one child has reported a change
ApplyLoop_StopsAtFirstMatch(args, i, state, modified, event, chk) ==
    IF i > Len(args) \/ modified
    THEN [outcome |-> "ok", args |-> args, state |-> state, modified |-> modified]
    ELSE LET original_state == PersistentExpression_state(args[i])
             r == PersistentExpression_apply(args[i], event, chk)
             args1 == [args EXCEPT ![i] = r.node]
         IN
         IF r.outcome # "ok"
         THEN [outcome |-> r.outcome, args |-> args1, state |-> state, modified |-> modified]
         ELSE IF r.ret
         THEN LET s == AddDelta(state, PersistentExpression_state(r.node), original_state, chk) IN
              IF s.outcome # "ok"
              THEN [outcome |-> s.outcome, args |-> args1, state |-> state, modified |-> modified]
              ELSE ApplyLoop(args1, i + 1, s.val, TRUE, event, chk)
         ELSE ApplyLoop(args1, i + 1, state, modified, event, chk)

\* for arg in args.iter_mut() { ... }, from child i on; a panic leaves the
\* children and the state as they are at that point
ApplyLoop(args, i, state, modified, event, chk) ==
    IF i > Len(args)
    THEN [outcome |-> "ok", args |-> args, state |-> state, modified |-> modified]
    ELSE LET original_state == PersistentExpression_state(args[i])
             r == PersistentExpression_apply(args[i], event, chk)
             args1 == [args EXCEPT ![i] = r.node]
         IN
         IF r.outcome # "ok"
         THEN [outcome |-> r.outcome, args |-> args1, state |-> state, modified |-> modified]
         ELSE IF r.ret
         THEN LET s == AddDelta(state, PersistentExpression_state(r.node), original_state, chk) IN
              IF s.outcome # "ok"
              THEN [outcome |-> s.outcome, args |-> args1, state |-> state, modified |-> modified]
              ELSE ApplyLoop(args1, i + 1, s.val, TRUE, event, chk)
         ELSE ApplyLoop(args1, i + 1, state, modified, event, chk)

PersistentExpression_apply(pe, event, chk) ==
    CASE pe.kind = "Number" -> [outcome |-> "ok", node |-> pe, ret |-> FALSE]
      [] pe.kind = "Reference" -> ApplyReference(pe, event)
      [] pe.kind = "Sum" ->
            LET r == ApplyLoop(pe.args, 1, pe.state, FALSE, event, chk) IN
            [outcome |-> r.outcome,
             node |-> [pe EXCEPT !.state = r.state, !.args = r.args],
             ret |-> r.modified]

RECURSIVE PersistentExpression_init(_, _, _)
RECURSIVE InitFold(_, _, _, _, _)

\* args.iter_mut().fold(0, |acc, v| { v.init(table_set); v.state() + acc }), from child i on
InitFold(args, i, acc, ts, chk) ==
    IF i > Len(args) THEN [outcome |-> "ok", args |-> args, acc |-> acc]
    ELSE LET r == PersistentExpression_init(args[i], ts, chk)
             args1 == [args EXCEPT ![i] = r.node]
         IN
         IF r.outcome # "ok" THEN [outcome |-> r.outcome, args |-> args1, acc |-> acc]
         ELSE LET s == I32Add(PersistentExpression_state(r.node), acc, chk) IN
              IF s.outcome # "ok" THEN [outcome |-> s.outcome, args |-> args1, acc |-> acc]
              ELSE InitFold(args1, i + 1, s.val, ts, chk)

\* A Reference arm of init that reads cell (y, x)
InitReference_Transposed(pe, ts) ==
    LET c == Lookup(ts, pe.table, pe.y, pe.x) IN
    IF c = <<>> THEN [outcome |-> "unwrap_none", node |-> pe]
    ELSE [outcome |-> "ok", node |-> [pe EXCEPT !.state = c[1]]]

\* A Reference arm of init that keeps a state that is not 0
InitReference_KeepsNonZero(pe, ts) ==
    LET c == Lookup(ts, pe.table, pe.x, pe.y) IN
    IF c = <<>> THEN [outcome |-> "unwrap_none", node |-> pe]
    ELSE IF pe.state # 0 THEN [outcome |-> "ok", node |-> pe]
    ELSE [outcome |-> "ok", node |-> [pe EXCEPT !.state = c[1]]]

\* The Reference arm of init: *state = table_set.get(table).and_then(..).unwrap()
InitReference(pe, ts) ==
    LET c == Lookup(ts, pe.table, pe.x, pe.y) IN
    IF c = <<>> THEN [outcome |-> "unwrap_none", node |-> pe]
    ELSE [outcome |-> "ok", node |-> [pe EXCEPT !.state = c[1]]]

\* A panic leaves the assignments made before it; *state of an enclosing Sum
\* is assigned only when its fold returns.
PersistentExpression_init(pe, ts, chk) ==
    CASE pe.kind = "Number" -> [outcome |-> "ok", node |-> pe]
      [] pe.kind = "Reference" -> InitReference(pe, ts)
      [] pe.kind = "Sum" ->
            LET r == InitFold(pe.args, 1, 0, ts, chk) IN
            IF r.outcome # "ok"
            THEN [outcome |-> r.outcome, node |-> [pe EXCEPT !.args = r.args]]
            ELSE [outcome |-> "ok", node |-> [pe EXCEPT !.state = r.acc, !.args = r.args]]

\* The structurally equivalent stateless Expression
RECURSIVE ToExpression(_)
ToExpression(pe) ==
    CASE pe.kind = "Number" -> Number(pe.v)
      [] pe.kind = "Reference" -> Reference(pe.table, pe.x, pe.y)
      [] pe.kind = "Sum" -> Sum([i \in 1..Len(pe.args) |-> ToExpression(pe.args[i])])

----------------------------------------------------------------------------
(* The inputs the model draws from *)

MaxOps == 7          \* calls made by the documented caller (init, then set/apply pairs)
MaxFreeOps == 3      \* calls made by the unconstrained caller
MaxTableOps == 2     \* get/set calls made on the tables alone
MaxPairOps == 3      \* calls made by the caller whose consecutive applies are compared
MaxIndex == 2        \* largest x or y probed on the tables alone

Values == {I32Min, -1, 3, I32Max}
Placeholders == {0, 9}

\* Cells an event or a Table.set may name: the test's cell, the same row at
\* another column, the same column in another row, the same coordinates in
\* another table.
Cells == {<<"t1", 1, 0>>, <<"t1", 0, 0>>, <<"t1", 1, 1>>, <<"t2", 1, 0>>}
Events == {SetValue(c[1], c[2], c[3], v) : c \in Cells, v \in Values}

TableSets ==
    { \* the test's tables
      ("t1" :> Table_new("t1", <<<<1, 2, 3>>>>)) @@ ("t2" :> Table_new("t2", <<<<1, 2, 3>>>>)),
      \* rows of different lengths, values at the ends of the i32 range
      ("t1" :> Table_new("t1", <<<<I32Max, -1, 3>>, <<3>>>>)) @@
          ("t2" :> Table_new("t2", <<<<I32Min, 3>>>>)),
      \* a single table with two full rows
      ("t1" :> Table_new("t1", <<<<1, 2>>, <<3, I32Min>>>>)) }

\* Trees as constructed, every state holding the placeholder p
Trees(p) ==
    { PSum(p, <<Number(1), PReference(p, "t1", 1, 0)>>),          \* the test's tree
      Number(3),
      PReference(p, "t1", 1, 0),
      PSum(p, <<>>),
      PSum(p, <<Number(1), Number(I32Max)>>),
      \* one cell referenced by several leaves, under nested Sums
      PSum(p, <<PReference(p, "t1", 1, 0),
                PSum(p, <<PReference(p, "t1", 1, 0), Number(-1)>>),
                PReference(p, "t1", 0, 0)>>),
      \* three levels, two tables
      PSum(p, <<PSum(p, <<PSum(p, <<PReference(p, "t1", 1, 0)>>),
                          PReference(p, "t2", 1, 0)>>),
                Number(3)>>),
      PSum(p, <<Number(1), PReference(p, "t3", 0, 0)>>),            \* no such table
      PSum(p, <<PReference(p, "t1", 1, 1), PReference(p, "t1", 1, 0)>>),
      PSum(p, <<Number(I32Max), PReference(p, "t1", 1, 0), Number(I32Min)>>) }

NoCall == [op |-> "new", args |-> <<>>, outcome |-> "ok", ret |-> <<>>]
\* no call before the last is kept
NoEarlier == [expr |-> Number(0), last |-> NoCall]

Init ==
    /\ overflow_checks \in BOOLEAN
    /\ table_set \in TableSets
    /\ \E p \in Placeholders : expr \in Trees(p)
    /\ phase = "new"
    /\ pending = <<>>
    /\ pre = [expr |-> expr, table_set |-> table_set]
    /\ last = NoCall
    /\ ops = 0
    /\ earlier = NoEarlier

----------------------------------------------------------------------------
(* The calls *)

Snapshot == [expr |-> expr, table_set |-> table_set]

\* expr.init(&table_set)
DoInit ==
    LET r == PersistentExpression_init(expr, table_set, overflow_checks) IN
    /\ phase # "aborted"
    /\ expr' = r.node
    /\ phase' = IF r.outcome = "ok" THEN "ready" ELSE "aborted"
    /\ pending' = <<>>
    /\ pre' = Snapshot
    /\ last' = [op |-> "init", args |-> <<>>, outcome |-> r.outcome, ret |-> <<>>]
    /\ ops' = ops + 1
    /\ UNCHANGED <<overflow_checks, table_set>>

\* table_set.get_mut(table).unwrap().set(x, y, value), then the event is built
DoSet(event) ==
    /\ phase # "aborted"
    /\ event.table \in DOMAIN table_set
    /\ table_set' = [table_set EXCEPT
                        ![event.table] = Table_set(@, event.x, event.y, event.value)]
    /\ pending' = <<event>>
    /\ pre' = Snapshot
    /\ last' = [op |-> "set", args |-> event, outcome |-> "ok", ret |-> <<>>]
    /\ ops' = ops + 1
    /\ UNCHANGED <<overflow_checks, expr, phase>>

\* An apply that also writes the event's value into the table it names
DoApply_WritesTable(event) ==
    LET r == PersistentExpression_apply(expr, event, overflow_checks) IN
    /\ phase # "aborted"
    /\ expr' = r.node
    /\ phase' = IF r.outcome = "ok" THEN phase ELSE "aborted"
    /\ pending' = <<>>
    /\ pre' = Snapshot
    /\ last' = [op |-> "apply", args |-> event, outcome |-> r.outcome,
                 ret |-> IF r.outcome = "ok" THEN r.ret ELSE <<>>]
    /\ ops' = ops + 1
    /\ table_set' = IF event.table \in DOMAIN table_set
                    THEN [table_set EXCEPT ![event.table] =
                             Table_set(@, event.x, event.y, event.value)]
                    ELSE table_set
    /\ UNCHANGED overflow_checks

\* expr.apply(&event)
DoApply(event) ==
    LET r == PersistentExpression_apply(expr, event, overflow_checks) IN
    /\ phase # "aborted"
    /\ expr' = r.node
    /\ phase' = IF r.outcome = "ok" THEN phase ELSE "aborted"
    /\ pending' = <<>>
    /\ pre' = Snapshot
    /\ last' = [op |-> "apply", args |-> event, outcome |-> r.outcome,
                 ret |-> IF r.outcome = "ok" THEN r.ret ELSE <<>>]
    /\ ops' = ops + 1
    /\ UNCHANGED <<overflow_checks, table_set>>

\* expression.eval(&table_set) on the structurally equivalent Expression
DoEval ==
    LET r == Expression_eval(ToExpression(expr), table_set, overflow_checks) IN
    /\ phase # "aborted"
    /\ phase' = IF r.outcome = "ok" THEN phase ELSE "aborted"
    /\ pre' = Snapshot
    /\ last' = [op |-> "eval", args |-> <<>>, outcome |-> r.outcome,
                 ret |-> IF r.outcome = "ok" THEN r.val ELSE <<>>]
    /\ ops' = ops + 1
    /\ UNCHANGED <<overflow_checks, table_set, expr, pending>>

\* table_set.get(table).unwrap().get(x, y)
DoGet(table, x, y) ==
    /\ phase # "aborted"
    /\ table \in DOMAIN table_set
    /\ pre' = Snapshot
    /\ last' = [op |-> "get", args |-> [table |-> table, x |-> x, y |-> y],
                 outcome |-> "ok", ret |-> Table_get(table_set[table], x, y)]
    /\ ops' = ops + 1
    /\ UNCHANGED <<overflow_checks, table_set, expr, phase, pending>>

\* The documented caller (spec section 6, test_persistent): init once, then
\* for each data change Table.set followed by apply of the matching event.
CallInit == phase = "new" /\ ops < MaxOps /\ DoInit /\ UNCHANGED earlier
CallSet ==
    /\ phase = "ready" /\ pending = <<>> /\ ops < MaxOps
    /\ \E e \in Events : DoSet(e)
    /\ UNCHANGED earlier
CallApply == phase = "ready" /\ pending # <<>> /\ DoApply(pending[1]) /\ UNCHANGED earlier

Next == CallInit \/ CallSet \/ CallApply

Spec == Init /\ [][Next]_vars

\* The unconstrained caller: init, apply and eval in any order, with any
\* event, whether or not a Table.set stands behind it.
FreeEvents == Events \cup {SetValue("t3", 0, 0, v) : v \in Values}

FreeInit == ops < MaxFreeOps /\ DoInit /\ UNCHANGED earlier
FreeApply == ops < MaxFreeOps /\ (\E e \in FreeEvents : DoApply(e)) /\ UNCHANGED earlier
FreeEval == ops < MaxFreeOps /\ DoEval /\ UNCHANGED earlier

NextFree == FreeInit \/ FreeApply \/ FreeEval

SpecFree == Init /\ [][NextFree]_vars

----------------------------------------------------------------------------
(* A caller that initialises the tree and then applies events one after    *)
(* the other, any event of Events each time; the call before the last is   *)
(* kept in `earlier` so that two consecutive applies can be compared.      *)

PairInit ==
    /\ phase = "new" /\ ops < MaxPairOps
    /\ DoInit
    /\ earlier' = [expr |-> pre.expr, last |-> last]

PairApply ==
    /\ phase = "ready" /\ ops < MaxPairOps
    /\ \E e \in Events : DoApply(e)
    /\ earlier' = [expr |-> pre.expr, last |-> last]

NextPair == PairInit \/ PairApply

SpecPair == Init /\ [][NextPair]_vars

\* The tables alone: Table.get and Table.set at any coordinates up to MaxIndex
TableSetsAlone ==
    TableSets \cup
    { ("t1" :> Table_new("t1", <<>>)) @@ ("t2" :> Table_new("t2", <<<<>>, <<7>>>>)) }

InitTable ==
    /\ overflow_checks = FALSE
    /\ table_set \in TableSetsAlone
    /\ expr = Number(0)
    /\ phase = "new"
    /\ pending = <<>>
    /\ pre = [expr |-> expr, table_set |-> table_set]
    /\ last = NoCall
    /\ ops = 0
    /\ earlier = NoEarlier

TableSetCall ==
    /\ ops < MaxTableOps
    /\ \E t \in {"t1", "t2"}, x \in 0..MaxIndex, y \in 0..MaxIndex, v \in Values :
          DoSet(SetValue(t, x, y, v))
    /\ UNCHANGED earlier

TableGetCall ==
    /\ ops < MaxTableOps
    /\ \E t \in {"t1", "t2"}, x \in 0..MaxIndex, y \in 0..MaxIndex : DoGet(t, x, y)
    /\ UNCHANGED earlier

NextTable == TableSetCall \/ TableGetCall

SpecTable == InitTable /\ [][NextTable]_vars

----------------------------------------------------------------------------
(* Positions in a tree: the sequence of child indices from the root *)

RECURSIVE Paths(_)
Paths(t) ==
    {<<>>} \cup
    (IF t.kind = "Sum"
     THEN UNION {{<<i>> \o q : q \in Paths(t.args[i])} : i \in 1..Len(t.args)}
     ELSE {})

RECURSIVE NodeAt(_, _)
NodeAt(t, q) == IF q = <<>> THEN t ELSE NodeAt(t.args[q[1]], Tail(q))

FreshEval(n, ts) == Expression_eval(ToExpression(n), ts, overflow_checks)

Returned(op) == last.op = op /\ last.outcome = "ok"

\* the nested tree of the catalogue, whatever its states
IsNestedTree(t) ==
    t.kind = "Sum" /\ Len(t.args) = 3 /\ t.args[2].kind = "Sum"

----------------------------------------------------------------------------
(* The value of an expression as a mathematical integer, kept as a pair    *)
(* <<hi, lo>> standing for hi * 65536 + lo with lo in 0..65535, so that    *)
(* sums beyond the i32 range can be written down.                          *)

Split(v) == <<v \div 65536, v % 65536>>
Carry(d) == <<d[1] + (d[2] \div 65536), d[2] % 65536>>
InI32(d) == d[1] >= -32768 /\ d[1] <= 32767
\* d reduced modulo 2^32 into the i32 range
ToI32(d) == (((d[1] + 32768) % 65536) - 32768) * 65536 + d[2]

\* whether (x, y) names a cell of table t: y a row index, x a column index of row y
InRange(t, x, y) == (y + 1) \in DOMAIN t.data /\ (x + 1) \in DOMAIN t.data[y + 1]

Resolves(ts, n) == n.table \in DOMAIN ts /\ InRange(ts[n.table], n.x, n.y)

RECURSIVE Den(_, _)
RECURSIVE DenSum(_, _, _)
DenSum(args, i, ts) ==
    IF i > Len(args) THEN <<0, 0>>
    ELSE LET a == Den(args[i], ts)
             b == DenSum(args, i + 1, ts)
         IN Carry(<<a[1] + b[1], a[2] + b[2]>>)
Den(e, ts) ==
    CASE e.kind = "Number" -> Split(e.v)
      [] e.kind = "Reference" -> Split(ts[e.table].data[e.y + 1][e.x + 1])
      [] e.kind = "Sum" -> DenSum(e.args, 1, ts)

HasMatchingLeaf(t, event) ==
    \E q \in Paths(t) :
        LET n == NodeAt(t, q) IN
        /\ n.kind = "Reference"
        /\ n.table = event.table /\ n.x = event.x /\ n.y = event.y

HasUnresolvedLeaf(t, ts) ==
    \E q \in Paths(t) :
        LET n == NodeAt(t, q) IN n.kind = "Reference" /\ ~Resolves(ts, n)

\* the three-level tree of the catalogue, whatever its states
IsDeepTree(t) ==
    /\ t.kind = "Sum" /\ Len(t.args) = 2 /\ t.args[1].kind = "Sum"
    /\ t.args[1].args[1].kind = "Sum"

----------------------------------------------------------------------------
(* Claims checked under Spec, the documented caller *)

\* C1: after init, and after every apply that follows the Table.set its event
\* describes, the cached state of every node (root, inner Sums, leaves)
\* equals the value a fresh eval of the equivalent Expression subtree gives
\* against the current TableSet.  Every Reference of the fresh eval resolves
\* and the state is the value the fresh eval returns; where a checked build
\* makes the fresh eval stop on an overflowing partial sum, the state is
\* still the i32 value of the subtree.
C1_EveryStateEqualsFreshEval ==
    (phase = "ready" /\ pending = <<>>) =>
        \A q \in Paths(expr) :
            LET n == NodeAt(expr, q)
                r == FreshEval(n, table_set)
            IN /\ r.outcome # "unwrap_none"
               /\ r.outcome = "ok" => PersistentExpression_state(n) = r.val
               /\ PersistentExpression_state(n) = ToI32(Den(ToExpression(n), table_set))

\* C1 witness: a second set/apply pair has changed the root of the nested
\* tree whose cell t1(1,0) is referenced by two leaves.
C1_Witness ==
    /\ Returned("apply") /\ last.ret = TRUE /\ ops >= 5
    /\ IsNestedTree(expr)
    /\ last.args.table = "t1" /\ last.args.x = 1 /\ last.args.y = 0
    /\ expr.state # pre.expr.state
    /\ expr.args[2].state # pre.expr.args[2].state

\* C2: after each apply of the protocol, the root state equals the root state
\* of a copy of the tree on which init is run from scratch against the
\* mutated TableSet (compared wherever that init returns).
C2_ApplyAgreesWithReinit ==
    (Returned("apply") /\ phase = "ready") =>
        LET r == PersistentExpression_init(expr, table_set, overflow_checks) IN
        /\ r.outcome # "unwrap_none"
        /\ r.outcome = "ok" =>
              PersistentExpression_state(expr) = PersistentExpression_state(r.node)

\* C2 witness: the run of test_persistent (t1(1,0) set from 2 to 3, root 3 -> 4)
C2_Witness ==
    /\ Returned("apply") /\ last.ret = TRUE
    /\ last.args = SetValue("t1", 1, 0, 3)
    /\ pre.expr.kind = "Sum" /\ pre.expr.state = 3
    /\ expr.state = 4
    /\ Len(expr.args) = 2 /\ expr.args[1] = Number(1)

\* C3: whenever init returns, state() of the root equals eval() of the
\* structurally equivalent Expression against the same TableSet, and that
\* eval returns.
C3_InitStateEqualsEval ==
    Returned("init") =>
        LET r == FreshEval(expr, table_set) IN
        r.outcome = "ok" /\ r.val = PersistentExpression_state(expr)

\* C3 witness: init of the three-level tree over two tables changed the root
C3_Witness ==
    /\ Returned("init")
    /\ expr.kind = "Sum" /\ Len(expr.args) = 2 /\ expr.args[1].kind = "Sum"
    /\ expr.args[1].args[1].kind = "Sum"
    /\ expr.state # pre.expr.state
    /\ expr.state = 7

\* whether some node of the subtree holds another state after than before
SomeStateChanged(before, after) ==
    \E q \in Paths(before) :
        PersistentExpression_state(NodeAt(before, q)) #
            PersistentExpression_state(NodeAt(after, q))

----------------------------------------------------------------------------
(* Claims checked under SpecFree, the unconstrained caller *)

\* C5: apply on any subtree returns true if and only if at least one
\* Reference leaf of that subtree has exactly the event's (table, x, y).
C5_TrueIffMatchingLeaf ==
    Returned("apply") =>
        /\ last.ret <=> HasMatchingLeaf(pre.expr, last.args)
        /\ \A q \in Paths(pre.expr) :
              LET n == NodeAt(pre.expr, q) IN
              PersistentExpression_apply(n, last.args, overflow_checks).ret
                  <=> HasMatchingLeaf(n, last.args)

\* C5 witness: an event for t2(1,0) on the three-level tree: true at the
\* root and at the Sum holding the t2 leaf, false at the innermost Sum, whose
\* leaf t1(1,0) agrees with the event in x and y only
C5_Witness ==
    /\ Returned("apply") /\ last.ret = TRUE
    /\ IsDeepTree(pre.expr)
    /\ last.args.table = "t2" /\ last.args.x = 1 /\ last.args.y = 0
    /\ ~PersistentExpression_apply(pre.expr.args[1].args[1], last.args, overflow_checks).ret
    /\ PersistentExpression_apply(pre.expr.args[1], last.args, overflow_checks).ret

\* C6: an event whose (table, x, y) matches no Reference leaf of the tree
\* leaves the state of every node unchanged and returns false at the root.
C6_NoMatchNoChange ==
    (last.op = "apply" /\ ~HasMatchingLeaf(pre.expr, last.args)) =>
        /\ last.outcome = "ok"
        /\ last.ret = FALSE
        /\ expr = pre.expr

\* C6 witness: the test tree, initialised and brought to root 4 by an event
\* for t1(1,0), takes an event for the unreferenced table t2 at the
\* coordinates of its own leaf
C6_Witness ==
    /\ Returned("apply") /\ phase = "ready" /\ ops = 3
    /\ last.args.table = "t2" /\ last.args.x = 1 /\ last.args.y = 0
    /\ expr.kind = "Sum" /\ Len(expr.args) = 2 /\ expr.args[1] = Number(1)
    /\ expr.args[2].kind = "Reference" /\ expr.args[2].table = "t1"
    /\ pre.expr.state = 4 /\ expr.state = 4 /\ last.ret = FALSE

\* C7: whenever eval returns, its result is the literal for a Number, the
\* current cell (column x of row y) for a Reference, and for a Sum the sum
\* of its children (0 with no children), in i32: the exact sum where the
\* build checks overflow, the sum reduced modulo 2^32 where it wraps.  The
\* TableSet is left as it was.
C7_EvalIsSumOfChildren ==
    Returned("eval") =>
        LET d == Den(ToExpression(expr), table_set) IN
        /\ last.ret = ToI32(d)
        /\ overflow_checks => InI32(d)
        /\ table_set = pre.table_set

\* C7 witness: eval of the nested tree on the test's tables, 2 + (2 + -1) + 1
C7_Witness ==
    /\ Returned("eval")
    /\ IsNestedTree(expr)
    /\ last.ret = 4

\* C8 (as claimed): eval and init end in the abort outcome if and only if at
\* least one Reference leaf of the tree names an absent table or coordinates
\* out of range; when every Reference resolves they return.
C8_AbortIffUnresolvedReference ==
    (last.op \in {"eval", "init"}) =>
        (last.outcome # "ok" <=> HasUnresolvedLeaf(pre.expr, pre.table_set))

\* What does hold of the aborts: an unresolved Reference always aborts the
\* call, a failed lookup is never reported for a tree whose References all
\* resolve, and the only other abort is an i32 overflow in a checked build.
AbortCauses ==
    (last.op \in {"eval", "init"}) =>
        /\ HasUnresolvedLeaf(pre.expr, pre.table_set) => last.outcome # "ok"
        /\ last.outcome = "unwrap_none" => HasUnresolvedLeaf(pre.expr, pre.table_set)
        /\ last.outcome \in {"ok", "unwrap_none", "overflow"}
        /\ last.outcome = "overflow" => overflow_checks

----------------------------------------------------------------------------
(* Claims checked under SpecTable, the tables alone *)

\* C9: Table.set never fails; with y a row index and x a column index of
\* that row, afterwards get(x, y) returns the value and every other cell,
\* the number of rows and every row length are unchanged; with either index
\* out of range the whole table is unchanged.
C9_SetWritesOneCellOrNothing ==
    last.op = "set" =>
        LET e == last.args
            t0 == pre.table_set[e.table]
            t1 == table_set[e.table]
        IN
        /\ last.outcome = "ok"
        /\ DOMAIN table_set = DOMAIN pre.table_set
        /\ \A n \in DOMAIN table_set \ {e.table} : table_set[n] = pre.table_set[n]
        /\ t1.name = t0.name
        /\ Len(t1.data) = Len(t0.data)
        /\ \A r \in 1..Len(t0.data) :
              /\ Len(t1.data[r]) = Len(t0.data[r])
              /\ \A c \in 1..Len(t0.data[r]) :
                    (r # e.y + 1 \/ c # e.x + 1) => t1.data[r][c] = t0.data[r][c]
        /\ InRange(t0, e.x, e.y) => Table_get(t1, e.x, e.y) = <<e.value>>
        /\ ~InRange(t0, e.x, e.y) => t1 = t0

\* C9 witness: on the table with rows of lengths 3 and 1, a write to (0, 1)
\* replaced the 3 of the short row
C9_Witness ==
    /\ last.op = "set"
    /\ last.args = SetValue("t1", 0, 1, I32Min)
    /\ Len(table_set["t1"].data) = 2
    /\ Len(table_set["t1"].data[1]) = 3
    /\ pre.table_set["t1"].data[2] = <<3>>
    /\ table_set["t1"].data[2] = <<I32Min>>

\* C10: Table.get(x, y) returns the stored cell exactly when y is less than
\* the number of rows and x less than the length of row y; for every other
\* (x, y) it returns None, not a default value, and never aborts.
C10_GetIsSomeIffInRange ==
    last.op = "get" =>
        LET t == table_set[last.args.table]
            x == last.args.x
            y == last.args.y
        IN
        /\ last.outcome = "ok"
        /\ InRange(t, x, y) => last.ret = <<t.data[y + 1][x + 1]>>
        /\ ~InRange(t, x, y) => last.ret = <<>>

\* C10 witness: on the table with rows of lengths 3 and 1, get(1, 1) finds
\* nothing although column 1 exists in row 0
C10_Witness ==
    /\ last.op = "get"
    /\ last.args = [table |-> "t1", x |-> 1, y |-> 1]
    /\ Len(table_set["t1"].data) = 2
    /\ Len(table_set["t1"].data[1]) = 3
    /\ Len(table_set["t1"].data[2]) = 1
    /\ last.ret = <<>>

----------------------------------------------------------------------------
(* Further claims checked under SpecFree *)

\* whether the Reference n has exactly the event's table, x and y
SameCell(n, event) == n.table = event.table /\ n.x = event.x /\ n.y = event.y

\* C11: after one apply on the root, every Reference leaf whose (table, x, y)
\* equals the event's holds the event's value, at any depth and however many
\* there are, and every Reference leaf that differs in table, x or y holds
\* the state it had before.
C11_MatchingLeavesTakeValue ==
    Returned("apply") =>
        /\ Paths(expr) = Paths(pre.expr)
        /\ \A q \in Paths(expr) :
              LET n == NodeAt(expr, q)
                  n0 == NodeAt(pre.expr, q)
              IN n.kind = "Reference" =>
                    /\ n0.kind = "Reference" /\ SameCell(n, [table |-> n0.table, x |-> n0.x, y |-> n0.y])
                    /\ SameCell(n, last.args) => n.state = last.args.value
                    /\ ~SameCell(n, last.args) => n.state = n0.state

\* C11 witness: on the nested tree both leaves for t1(1,0), at depth 1 and
\* depth 2, took a new value and the leaf for t1(0,0) kept its own
C11_Witness ==
    /\ Returned("apply") /\ phase = "ready"
    /\ IsNestedTree(expr)
    /\ last.args.table = "t1" /\ last.args.x = 1 /\ last.args.y = 0
    /\ expr.args[1].state = last.args.value /\ pre.expr.args[1].state # last.args.value
    /\ expr.args[2].args[1].state = last.args.value
    /\ pre.expr.args[2].args[1].state # last.args.value
    /\ expr.args[3].state = pre.expr.args[3].state
    /\ expr.args[3].state # last.args.value

\* whether the recursive apply of the event on child n0 returns true
ChildReturnsTrue(n0, event) ==
    PersistentExpression_apply(n0, event, overflow_checks).ret

\* the exact sum, over the children from i on whose apply returned true, of
\* (state after - state before)
RECURSIVE DeltaSum(_, _, _, _)
DeltaSum(before, after, i, event) ==
    IF i > Len(before) THEN <<0, 0>>
    ELSE LET rest == DeltaSum(before, after, i + 1, event)
             a == Split(PersistentExpression_state(after[i]))
             b == Split(PersistentExpression_state(before[i]))
         IN IF ChildReturnsTrue(before[i], event)
            THEN Carry(<<rest[1] + a[1] - b[1], rest[2] + a[2] - b[2]>>)
            ELSE rest

\* C12: apply on a Sum changes the node's own state by exactly the sum, over
\* the children whose apply returned true, of (child state after - child state
\* before), in i32; a child that returned false contributes nothing and keeps
\* its state; the node returns true iff at least one child returned true.
C12_SumStateMovesByChildDeltas ==
    Returned("apply") =>
        \A q \in Paths(pre.expr) :
            LET n0 == NodeAt(pre.expr, q)
                n == NodeAt(expr, q)
                d == DeltaSum(n0.args, n.args, 1, last.args)
                s0 == Split(n0.state)
                total == Carry(<<s0[1] + d[1], s0[2] + d[2]>>)
                ret == IF q = <<>> THEN last.ret
                       ELSE PersistentExpression_apply(n0, last.args, overflow_checks).ret
            IN n0.kind = "Sum" =>
                  /\ n.state = ToI32(total)
                  /\ overflow_checks => InI32(total)
                  /\ \A i \in DOMAIN n0.args :
                        ~ChildReturnsTrue(n0.args[i], last.args) => n.args[i] = n0.args[i]
                  /\ ret <=> \E i \in DOMAIN n0.args : ChildReturnsTrue(n0.args[i], last.args)

\* C12 witness: on the nested tree the root moved by the deltas of two of its
\* three children, one of them a Sum, while the third child returned false
C12_Witness ==
    /\ Returned("apply") /\ phase = "ready"
    /\ IsNestedTree(expr)
    /\ ChildReturnsTrue(pre.expr.args[1], last.args)
    /\ ChildReturnsTrue(pre.expr.args[2], last.args)
    /\ ~ChildReturnsTrue(pre.expr.args[3], last.args)
    /\ expr.args[1].state # pre.expr.args[1].state
    /\ expr.args[2].state # pre.expr.args[2].state
    /\ expr.state # pre.expr.state
    /\ last.ret = TRUE

\* C13: the state() of a Number node is its literal in every reachable state:
\* no init and no apply, returning or aborting, changes the node, and apply on
\* a Number returns false whatever the event.
C13_NumberKeepsLiteral ==
    \A q \in Paths(pre.expr) :
        LET n0 == NodeAt(pre.expr, q)
            n == NodeAt(expr, q)
        IN n0.kind = "Number" =>
              /\ n = n0
              /\ PersistentExpression_state(n) = n0.v
              /\ last.op = "apply" =>
                    /\ PersistentExpression_apply(n0, last.args, overflow_checks).outcome = "ok"
                    /\ ~PersistentExpression_apply(n0, last.args, overflow_checks).ret
                    /\ q = <<>> => last.outcome = "ok" /\ last.ret = FALSE

\* C13 witness: an apply that changed the root of an initialised Sum and its
\* Reference child left the Number child at its literal 1
C13_Witness ==
    /\ Returned("apply") /\ phase = "ready" /\ last.ret = TRUE
    /\ Len(expr.args) = 2
    /\ expr.args[1] = Number(1)
    /\ PersistentExpression_state(expr.args[1]) = 1
    /\ expr.args[2].kind = "Reference"
    /\ expr.args[2].state # pre.expr.args[2].state
    /\ expr.state # pre.expr.state

\* C14: the engine never mutates the tables: a call of init, apply or eval
\* (state() is a read of the node), with any event and whether it returns or
\* aborts, leaves the set of tables and every cell of every table exactly as
\* they were before the call.
C14_EngineLeavesTablesAlone ==
    last.op \in {"init", "apply", "eval"} =>
        /\ DOMAIN table_set = DOMAIN pre.table_set
        /\ \A t \in DOMAIN table_set : table_set[t] = pre.table_set[t]

\* C14 witness: an apply gave a leaf a value that the cell it names does not
\* hold, and the tables are as they were
C14_Witness ==
    /\ Returned("apply") /\ last.ret = TRUE
    /\ expr # pre.expr
    /\ table_set = pre.table_set
    /\ Lookup(table_set, last.args.table, last.args.x, last.args.y) \notin {<<>>, <<last.args.value>>}

\* whether the event carries a value that the cell it names does not hold:
\* the caller did not mutate the table, mutated it to another value, or the
\* cell does not exist
EventDisagreesWithTable(ts, event) ==
    Lookup(ts, event.table, event.x, event.y) # <<event.value>>

\* C15: apply takes the new value from the event and never reads the table:
\* when the event's value differs from what the table holds for that cell,
\* apply does not fail and does not notice, and afterwards every matching
\* Reference leaf holds the event's value, not the table's.
C15_EventValueWinsAndApplyNeverFails ==
    (last.op = "apply" /\ EventDisagreesWithTable(pre.table_set, last.args)) =>
        /\ last.outcome = "ok"
        /\ last.ret <=> HasMatchingLeaf(pre.expr, last.args)
        /\ \A q \in Paths(expr) :
              LET n == NodeAt(expr, q) IN
              (n.kind = "Reference" /\ SameCell(n, last.args)) => n.state = last.args.value

\* What does hold of such an apply: it never stops on a lookup, and whenever
\* it returns the matching leaves hold the event's value
EventValueWins ==
    (last.op = "apply" /\ EventDisagreesWithTable(pre.table_set, last.args)) =>
        /\ last.outcome \in {"ok", "overflow"}
        /\ last.outcome = "overflow" => overflow_checks
        /\ last.outcome = "ok" =>
              \A q \in Paths(expr) :
                  LET n == NodeAt(expr, q) IN
                  (n.kind = "Reference" /\ SameCell(n, last.args)) => n.state = last.args.value

\* the tree t with the state of every Reference and Sum replaced by p
RECURSIVE WithStates(_, _)
WithStates(t, p) ==
    CASE t.kind = "Number" -> t
      [] t.kind = "Reference" -> [t EXCEPT !.state = p]
      [] t.kind = "Sum" ->
            [t EXCEPT !.state = p, !.args = [i \in DOMAIN t.args |-> WithStates(t.args[i], p)]]

\* C16: the states init leaves depend only on the tree's structure and the
\* tables, not on the states before: from placeholders or from stale states
\* left by earlier calls, an init that returns makes every node's state the
\* fresh eval of its subtree and gives the tree it gives from any uniform
\* placeholder; running init again on the result changes nothing.
C16_InitForgetsPriorStates ==
    Returned("init") =>
        /\ \A q \in Paths(expr) :
              /\ FreshEval(NodeAt(expr, q), table_set).outcome = "ok"
              /\ PersistentExpression_state(NodeAt(expr, q))
                    = FreshEval(NodeAt(expr, q), table_set).val
        /\ \A p \in Placeholders \cup Values :
              PersistentExpression_init(WithStates(pre.expr, p), table_set, overflow_checks)
                 = [outcome |-> "ok", node |-> expr]
        /\ PersistentExpression_init(expr, table_set, overflow_checks)
              = [outcome |-> "ok", node |-> expr]

\* C16 witness: init ran on the nested tree whose leaves and Sums held states
\* left by an earlier apply, none of them what the tables give, and replaced
\* every one of them
C16_Witness ==
    /\ Returned("init") /\ ops >= 2
    /\ IsNestedTree(expr)
    /\ pre.expr.args[1].state \notin Placeholders \cup {expr.args[1].state}
    /\ pre.expr.args[2].args[1].state # expr.args[2].args[1].state
    /\ pre.expr.args[2].state # expr.args[2].state
    /\ pre.expr.state # expr.state

\* the exact sum of the states of the children from i on
RECURSIVE ChildStateSum(_, _)
ChildStateSum(args, i) ==
    IF i > Len(args) THEN <<0, 0>>
    ELSE LET a == Split(PersistentExpression_state(args[i]))
             b == ChildStateSum(args, i + 1)
         IN Carry(<<a[1] + b[1], a[2] + b[2]>>)

\* C17: once init has returned, after any sequence of applies with arbitrary
\* events (matching one leaf, several or none, reflecting the tables or not),
\* the state of every Sum node is the sum in i32 of the current states of its
\* direct children.
C17_SumIsSumOfChildStates ==
    phase = "ready" =>
        \A q \in Paths(expr) :
            LET n == NodeAt(expr, q) IN
            n.kind = "Sum" =>
                /\ n.state = ToI32(ChildStateSum(n.args, 1))
                /\ overflow_checks => InI32(ChildStateSum(n.args, 1))

\* C17 witness: after init and two applies the nested tree holds, in leaves
\* at two depths, a value its table does not hold, and the root and the
\* inner Sum have both moved
C17_Witness ==
    /\ phase = "ready" /\ ops = 3 /\ Returned("apply") /\ last.ret = TRUE
    /\ IsNestedTree(expr)
    /\ EventDisagreesWithTable(table_set, last.args)
    /\ expr.state # pre.expr.state
    /\ expr.args[2].state # pre.expr.args[2].state
    /\ expr.state # FreshEval(expr, table_set).val

----------------------------------------------------------------------------
(* Further claims checked under Spec *)

\* whether some subtraction or addition of the apply leaves the i32 range:
\* the run with overflow checks stops at the first one, which is the same
\* operation on the same operands in a wrapping build
ApplyLeavesI32(pe, event) ==
    PersistentExpression_apply(pe, event, TRUE).outcome = "overflow"

\* C18: in apply on a Sum, when the state of every node before the event and
\* the correct state of every node after it lie in the i32 range, no
\* intermediate result (a child's delta, a running state += delta) leaves the
\* range: the update never overflows.
C18_UpdateNeverOverflows ==
    (/\ last.op = "apply"
     /\ \A q \in Paths(pre.expr) :
           /\ PersistentExpression_state(NodeAt(pre.expr, q)) \in I32Min..I32Max
           /\ InI32(Den(NodeAt(pre.expr, q), table_set)))
    => ~ApplyLeavesI32(pre.expr, last.args)

----------------------------------------------------------------------------
(* Claims checked under SpecPair *)

\* whether the last two calls were both applies, the first of which returned
TwoApplies == earlier.last.op = "apply" /\ earlier.last.outcome = "ok" /\ last.op = "apply"

\* C19: applying the same SetValue event twice in a row to an initialised
\* tree leaves every node's state exactly as it was after the first
\* application; the second application returns.
C19_SameEventTwiceChangesNothing ==
    (TwoApplies /\ earlier.last.args = last.args) =>
        /\ last.outcome = "ok"
        /\ expr = pre.expr
        /\ \A q \in Paths(expr) :
              PersistentExpression_state(NodeAt(expr, q))
                 = PersistentExpression_state(NodeAt(pre.expr, q))

\* C19 witness: on the nested tree the first application changed leaves at
\* two depths and both Sums, and the second application of the same event,
\* which returned true again, left all of it as it was
C19_Witness ==
    /\ TwoApplies /\ earlier.last.args = last.args
    /\ last.outcome = "ok" /\ last.ret = TRUE /\ earlier.last.ret = TRUE
    /\ IsNestedTree(expr)
    /\ pre.expr.state # earlier.expr.state
    /\ pre.expr.args[1].state # earlier.expr.args[1].state
    /\ pre.expr.args[2].state # earlier.expr.args[2].state
    /\ expr = pre.expr

\* the tree after apply(first) and then apply(second) on t; outcome "ok" only
\* if both calls return
ApplyBoth(t, first, second) ==
    LET a == PersistentExpression_apply(t, first, overflow_checks) IN
    IF a.outcome # "ok" THEN [outcome |-> a.outcome, node |-> a.node]
    ELSE LET b == PersistentExpression_apply(a.node, second, overflow_checks) IN
         [outcome |-> b.outcome, node |-> b.node]

\* C20: two events for different cells give, applied in either order, the
\* same state at every node; of two events for the same cell the one applied
\* last decides: every matching leaf holds its value and every Sum is what it
\* is when only that event is applied.
C20_OrderOfEvents ==
    (TwoApplies /\ last.outcome = "ok") =>
        LET e1 == earlier.last.args
            e2 == last.args
            swapped == ApplyBoth(earlier.expr, e2, e1)
            only2 == PersistentExpression_apply(earlier.expr, e2, overflow_checks)
        IN
        /\ ~SameCell(e1, e2) =>
              /\ ~overflow_checks => swapped.outcome = "ok"
              /\ swapped.outcome = "ok" => swapped.node = expr
        /\ SameCell(e1, e2) =>
              /\ \A q \in Paths(expr) :
                    LET n == NodeAt(expr, q) IN
                    /\ (n.kind = "Reference" /\ SameCell(n, e2)) => n.state = e2.value
                    /\ n.kind = "Sum" => n.state = ToI32(ChildStateSum(n.args, 1))
              /\ ~overflow_checks => only2.outcome = "ok"
              /\ only2.outcome = "ok" => only2.node = expr

\* C20 witness: on the nested tree an event for t1(1,0), held by two leaves,
\* and then an event for t1(0,0), held by a third, each changed its leaves
\* and the root
C20_Witness ==
    /\ TwoApplies /\ last.outcome = "ok"
    /\ IsNestedTree(expr)
    /\ SameCell(earlier.last.args, [table |-> "t1", x |-> 1, y |-> 0])
    /\ SameCell(last.args, [table |-> "t1", x |-> 0, y |-> 0])
    /\ pre.expr.args[1].state # earlier.expr.args[1].state
    /\ pre.expr.state # earlier.expr.state
    /\ expr.args[3].state # pre.expr.args[3].state
    /\ expr.state # pre.expr.state
    /\ ApplyBoth(earlier.expr, last.args, earlier.last.args).outcome = "ok"

====
